---- MODULE Spec2Model ----
(***************************************************************************)
(* A model of the VidPalAI multi-camera podcast editing pipeline:          *)
(*   - speaker identification with its diarization fallback and the        *)
(*     speaker role resolver (speaker_identification.py),                  *)
(*   - the local context of a chapter (podcast_editor/producer_pass.py),   *)
(*   - the director pass, one oracle call per chapter                      *)
(*     (podcast_editor/producer_pass.py, podcast_editor/director_pass.py), *)
(*   - the finishing pass, stitcher and serializer entry                   *)
(*     (podcast_editor/finishing_pass.py).                                 *)
(* Times are whole seconds in the pipeline specification Spec and eighths  *)
(* of a second in the finishing-pass specification SpecFinishing.          *)
(***************************************************************************)
EXTENDS Integers, Sequences, FiniteSets, TLC

VARIABLES
    speaker_segments,   \* the speaker turns handed to create_speaker_role_mapping
    role_mapping,       \* its result: speaker id -> role
    rpc,                \* "segments" before the resolver ran, "mapped" after
    chapters,           \* structural_map['chapters'] as the director pass loads it
    dpc,                \* director pass: "start", "loop", "done", "no_index", "crashed"
    idx,                \* 1-based position of the chapter loop
    outcomes,           \* history: what the external calls did for each chapter taken up
    final_edits,        \* run_director_pass.final_edits
    director_edits_file,\* output/director_edits.json: [exists, edits]
    fpc,                \* finishing pass: "idle", "no_file", "no_cuts", "key_error", "written"
    full_edl,           \* run_finishing_pass.full_edl, the stitched timeline
    fcpxml,             \* output/final_cut_multicam.fcpxml:
                        \* [written, formats, assets, duration, clips]
    master_audio_log,   \* the word events handed to format_multicam_local_context
    video_logs,         \* camera id -> that camera's frame events
    chapter_span,       \* [start_time, end_time] of the chapter the context is built for
    local_context,      \* the result: [transcript_parts, visuals]
    cpc,                \* "idle", "inputs" before the context is built, "built" after
    ipc,                \* identify_speakers: "idle", "start", "transcribe", "diarize",
                        \* "first", "fallback", "extract", "finally", "returned", "raised"
    diarizer_params,    \* keyword names diarize_model.__call__ accepts
    is_temp,            \* processed_audio is a temporary file
    temp_exists,        \* that temporary file is on disk
    input_exists,       \* the original input file audio_path is on disk
    cleanup,            \* what the finally block printed: "none", "removed", "warned"
    result_segments,    \* number of segments of the aligned transcription
    diarize_segments,   \* [bound, turns]: the local diarize_segments, if bound
    assigned,           \* speaker label per segment of assigned["segments"], "" for none
    diarizer_calls,     \* history: keyword arguments and outcome of every diarizer call
    first_unique,       \* first_unique, -1 while not computed
    pending_raise,      \* an exception is on its way out through the finally block
    returned_segments,  \* speaker ids of the returned speaker_segments
    audio_log,          \* rag_agent: data['audio_log'], the words to be indexed
    video_log,          \* rag_agent: data['video_log']
    documents,          \* load_and_prepare_documents.documents
    xpc,                \* "idle", "loaded" before the documents are built, "prepared" after
    mpc,                \* main(): "idle", "start", "cameras", "saved", "crashed"
    source_exists,      \* camera id -> os.path.exists(file_path)
    engine_ok,          \* camera id -> the description engine can process the file
    cam_pos,            \* 1-based position of the loop over VIDEO_FILES
    main_video_logs,    \* main.video_logs: camera id -> stream, as the set of its keys
    combined_data,      \* processed_data_multi_cam.json: [saved, video_logs]
    transcribed_words,  \* start times of the words Whisper returned
    speaker_map_loaded, \* transcribe_audio.speaker_data is set
    word_log,           \* transcribe_audio.word_log
    wpc                 \* "idle", "transcribed" before word_log is built, "logged" after

role_vars == <<speaker_segments, role_mapping, rpc>>
director_vars == <<chapters, dpc, idx, outcomes, final_edits, director_edits_file>>
finishing_vars == <<fpc, full_edl, fcpxml>>
context_vars == <<master_audio_log, video_logs, chapter_span, local_context, cpc>>
identify_vars == <<ipc, diarizer_params, is_temp, temp_exists, input_exists, cleanup,
                   result_segments,
                   diarize_segments, assigned, diarizer_calls, first_unique,
                   pending_raise, returned_segments>>
index_vars == <<audio_log, video_log, documents, xpc>>
main_vars == <<mpc, source_exists, engine_ok, cam_pos, main_video_logs, combined_data>>
label_vars == <<transcribed_words, speaker_map_loaded, word_log, wpc>>
ingest_vars == <<index_vars, main_vars, label_vars>>
vars == <<role_vars, director_vars, finishing_vars, context_vars, identify_vars,
          ingest_vars>>

----------------------------------------------------------------------------
(* Generic helpers *)

BoundedSeq(S, n) == UNION {[1..k -> S] : k \in 0..n}

Front(s) == SubSeq(s, 1, Len(s) - 1)

Last(s) == s[Len(s)]

RECURSIVE SumOver(_, _)
SumOver(f, S) ==
    IF S = {} THEN 0
    ELSE LET x == CHOOSE y \in S : TRUE IN f[x] + SumOver(f, S \ {x})

\* No project file has been written.
NoProject ==
    [written |-> FALSE, formats |-> <<>>, assets |-> <<>>, duration |-> 0,
     clips |-> <<>>]

\* No local context has been asked for.
NoContext == [transcript_parts |-> <<>>, visuals |-> <<>>]

ContextIdle ==
    /\ master_audio_log = <<>>
    /\ video_logs = <<>>
    /\ chapter_span = [start_time |-> 0, end_time |-> 0]
    /\ local_context = NoContext
    /\ cpc = "idle"

\* diarize_segments is not bound to a value.
Unbound == [bound |-> FALSE, turns |-> <<>>]

\* The values of identify_speakers' locals before the diarization step.
NotDiarized ==
    /\ diarize_segments = Unbound
    /\ assigned = <<>>
    /\ diarizer_calls = <<>>
    /\ first_unique = -1
    /\ pending_raise = FALSE
    /\ returned_segments = <<>>

IdentifyIdle ==
    /\ ipc = "idle"
    /\ diarizer_params = {}
    /\ is_temp = FALSE
    /\ temp_exists = FALSE
    /\ input_exists = TRUE
    /\ cleanup = "none"
    /\ result_segments = 0
    /\ NotDiarized

IndexIdle ==
    /\ audio_log = <<>>
    /\ video_log = <<>>
    /\ documents = <<>>
    /\ xpc = "idle"

\* No combined log has been saved.
NotSaved == [saved |-> FALSE, video_logs |-> {}]

MainIdle ==
    /\ mpc = "idle"
    /\ source_exists = <<>>
    /\ engine_ok = <<>>
    /\ cam_pos = 1
    /\ main_video_logs = {}
    /\ combined_data = NotSaved

LabelIdle ==
    /\ transcribed_words = <<>>
    /\ speaker_map_loaded = FALSE
    /\ word_log = <<>>
    /\ wpc = "idle"

IngestIdle == IndexIdle /\ MainIdle /\ LabelIdle

----------------------------------------------------------------------------
(* Speaker role resolver: speaker_identification.py *)

SpeakerIds == {"SPEAKER_00", "SPEAKER_01", "SPEAKER_02", "SPEAKER_03"}

\* (start, end) of the turns the diarizer may report, in seconds.
TurnSpans == {<<0, 10>>, <<10, 50>>, <<50, 150>>}

MaxTurns == 4

SpeakerTurns ==
    {[speaker_id |-> s, start |-> sp[1], end |-> sp[2]] :
        s \in SpeakerIds, sp \in TurnSpans}

\* The defaultdict(float) filled by the first loop: one (id, total) item per
\* speaker id, in order of first occurrence (dict insertion order).
RECURSIVE speaker_durations(_)
speaker_durations(segs) ==
    IF segs = <<>> THEN <<>>
    ELSE LET prev == speaker_durations(Front(segs))
             seg == Last(segs)
             duration == seg.end - seg.start
         IN  IF \E k \in 1..Len(prev) : prev[k].id = seg.speaker_id
             THEN [k \in 1..Len(prev) |->
                      IF prev[k].id = seg.speaker_id
                      THEN [id |-> prev[k].id, total |-> prev[k].total + duration]
                      ELSE prev[k]]
             ELSE Append(prev, [id |-> seg.speaker_id, total |-> duration])

\* The insertion step of an ascending sort (reverse=True forgotten).
InsertByTotalAscending(sorted, item) ==
    LET k == Cardinality({j \in 1..Len(sorted) : sorted[j].total <= item.total})
    IN  SubSeq(sorted, 1, k) \o <<item>> \o SubSeq(sorted, k + 1, Len(sorted))

\* One step of a stable descending sort: the item goes after every item whose
\* total is at least its own.
InsertByTotal(sorted, item) ==
    LET k == Cardinality({j \in 1..Len(sorted) : sorted[j].total >= item.total})
    IN  SubSeq(sorted, 1, k) \o <<item>> \o SubSeq(sorted, k + 1, Len(sorted))

\* sorted(speaker_durations.items(), key=total, reverse=True): stable, so
\* equal totals keep their first-occurrence order.
RECURSIVE sorted_speakers(_)
sorted_speakers(items) ==
    IF items = <<>> THEN <<>>
    ELSE InsertByTotal(sorted_speakers(Front(items)), Last(items))

\* enumerate(sorted_speakers[2:], start=3): the label number of the first
\* additional speaker.
EnumerateStart == 3

\* The labelling with enumerate counting the additional speakers from 2.
RoleOfRankStartTwo(k) ==
    IF k = 0 THEN "host"
    ELSE IF k = 1 THEN "guest"
    ELSE "speaker_" \o ToString(k)

\* The role given to the speaker at 0-based rank k of sorted_speakers.
RoleOfRank(k) ==
    IF k = 0 THEN "host"
    ELSE IF k = 1 THEN "guest"
    ELSE "speaker_" \o ToString(EnumerateStart + (k - 2))

create_speaker_role_mapping(segs) ==
    LET sorted == sorted_speakers(speaker_durations(segs))
        ids == {sorted[k].id : k \in 1..Len(sorted)}
    IN  [s \in ids |->
            LET k == CHOOSE j \in 1..Len(sorted) : sorted[j].id = s
            IN  RoleOfRank(k - 1)]

RolesInit ==
    /\ speaker_segments \in BoundedSeq(SpeakerTurns, MaxTurns)
    /\ role_mapping = [s \in {} |-> "host"]
    /\ rpc = "segments"
    /\ chapters = <<>>
    /\ dpc = "start"
    /\ idx = 1
    /\ outcomes = <<>>
    /\ final_edits = <<>>
    /\ director_edits_file = [exists |-> FALSE, edits |-> <<>>]
    /\ fpc = "idle"
    /\ full_edl = <<>>
    /\ fcpxml = NoProject
    /\ ContextIdle
    /\ IdentifyIdle
    /\ IngestIdle

\* main(): role_mapping = create_speaker_role_mapping(speaker_segments)
ResolveRoles ==
    /\ rpc = "segments"
    /\ role_mapping' = create_speaker_role_mapping(speaker_segments)
    /\ rpc' = "mapped"
    /\ UNCHANGED <<speaker_segments, director_vars, finishing_vars, context_vars,
                   identify_vars, ingest_vars>>

RolesNext == ResolveRoles

SpecRoles == RolesInit /\ [][RolesNext]_vars

----------------------------------------------------------------------------
(* Properties of the role resolver *)

\* The speaker ids occurring in the turns, and each one's summed duration,
\* computed directly from the turn list.
OccurringIds == {speaker_segments[k].speaker_id : k \in 1..Len(speaker_segments)}

TotalOf(s) ==
    LET own == {k \in 1..Len(speaker_segments) : speaker_segments[k].speaker_id = s}
        d == [k \in own |-> speaker_segments[k].end - speaker_segments[k].start]
    IN  SumOver(d, own)

WithRole(r) == {s \in DOMAIN role_mapping : role_mapping[s] = r}

\* The N of a speaker_N label (0 when the role is no such label).
LabelNumber(r) ==
    LET ns == {n \in 0..(MaxTurns + 4) : r = "speaker_" \o ToString(n)}
    IN  IF ns = {} THEN 0 ELSE CHOOSE n \in ns : TRUE

Additional == {s \in DOMAIN role_mapping : role_mapping[s] \notin {"host", "guest"}}

\* C1: the mapping has exactly one host when a speaker occurs, exactly one
\* guest when two distinct speakers occur, the host has the largest summed
\* duration, and the other speakers get pairwise distinct speaker_N labels
\* numbered in order of descending total duration.
C1_RoleMappingInvariant ==
    rpc = "mapped" =>
        /\ DOMAIN role_mapping = OccurringIds
        /\ Cardinality(OccurringIds) >= 1 => Cardinality(WithRole("host")) = 1
        /\ Cardinality(OccurringIds) >= 2 => Cardinality(WithRole("guest")) = 1
        /\ Cardinality(OccurringIds) = 0 => WithRole("host") = {}
        /\ Cardinality(OccurringIds) <= 1 => WithRole("guest") = {}
        /\ \A h \in WithRole("host") : \A s \in OccurringIds : TotalOf(h) >= TotalOf(s)
        /\ \A s \in Additional : LabelNumber(role_mapping[s]) >= 3
        /\ \A s, t \in Additional : s # t => role_mapping[s] # role_mapping[t]
        /\ \A s, t \in Additional :
              LabelNumber(role_mapping[s]) < LabelNumber(role_mapping[t])
                  => TotalOf(s) >= TotalOf(t)

\* Four distinct speakers were mapped, so speaker_3 and speaker_4 are both in use.
C1_Witness ==
    /\ rpc = "mapped"
    /\ Cardinality(OccurringIds) = 4
    /\ WithRole("speaker_3") # {}
    /\ WithRole("speaker_4") # {}

\* The reference ranking: a speaker's 0-based rank lies between the number of
\* speakers with a strictly larger total and the number of other speakers with
\* a total at least as large (the two agree when totals are distinct).
RankOfRole(r) ==
    IF r = "host" THEN 0 ELSE IF r = "guest" THEN 1 ELSE LabelNumber(r) - 1

\* C2: the mapping is the reference function: sum the durations per speaker,
\* rank by descending total, rank 0 is host, rank 1 guest, rank k >= 2 is
\* speaker_(k+1); turns totalling 100 s, 40 s and 10 s give host, guest and
\* speaker_3 whatever the order of the turns.
C2_RoleMappingReference ==
    rpc = "mapped" =>
        /\ DOMAIN role_mapping = OccurringIds
        /\ {RankOfRole(role_mapping[s]) : s \in OccurringIds}
              = 0..(Cardinality(OccurringIds) - 1)
        /\ \A s \in OccurringIds :
              LET k == RankOfRole(role_mapping[s])
                  above == {t \in OccurringIds : TotalOf(t) > TotalOf(s)}
                  atLeast == {t \in OccurringIds \ {s} : TotalOf(t) >= TotalOf(s)}
              IN  /\ Cardinality(above) <= k
                  /\ k <= Cardinality(atLeast)
                  /\ role_mapping[s] = (IF k = 0 THEN "host"
                                        ELSE IF k = 1 THEN "guest"
                                        ELSE "speaker_" \o ToString(k + 1))
        /\ \A a, b, c \in OccurringIds :
              (OccurringIds = {a, b, c} /\ TotalOf(a) = 100 /\ TotalOf(b) = 40
                  /\ TotalOf(c) = 10)
                  => (role_mapping[a] = "host" /\ role_mapping[b] = "guest"
                      /\ role_mapping[c] = "speaker_3")

\* The 100 s / 40 s / 10 s example, with the shortest speaker listed first.
C2_Witness ==
    /\ rpc = "mapped"
    /\ Len(speaker_segments) = 3
    /\ speaker_segments[1].end - speaker_segments[1].start = 10
    /\ \E a, b, c \in OccurringIds :
          /\ OccurringIds = {a, b, c}
          /\ TotalOf(a) = 100 /\ TotalOf(b) = 40 /\ TotalOf(c) = 10
          /\ role_mapping[a] = "host"
          /\ role_mapping[b] = "guest"
          /\ role_mapping[c] = "speaker_3"

----------------------------------------------------------------------------
(* Director pass: podcast_editor/producer_pass.py.  The run_director_pass of *)
(* podcast_editor/director_pass.py has the same control flow.                *)

\* The length of the programme in seconds, and the caps on the chapter map's
\* length and on the number of cuts the oracle returns over one run.
ProgramDuration == 4

MaxChapters == 2

MaxCuts == 2

Times == 0..ProgramDuration

\* The boundaries a chapter of the structural map may carry.
ChapterTimes == {0, ProgramDuration \div 2, ProgramDuration}

ChapterSpans == {sp \in ChapterTimes \X ChapterTimes : sp[1] < sp[2]}

\* Any chapter list the structural map file may hold; the title of a chapter
\* is its position in the list.
ChapterMaps ==
    {[k \in 1..Len(sp) |-> [title |-> k, start_time |-> sp[k][1], end_time |-> sp[k][2]]] :
        sp \in BoundedSeq(ChapterSpans, MaxChapters)}

\* The keys of SOURCE_VIDEOS, which are also the camera ids the prompt names.
DeclaredCameras == {"cam_host", "cam_guest", "cam_wide"}

\* What the oracle may answer: any camera name, any span with start < end.
OracleCameras == DeclaredCameras \cup {"cam_x"}

OracleCuts ==
    {cut \in [start_time : Times, end_time : Times, camera_id : OracleCameras] :
        cut.start_time < cut.end_time}

\* "Minimum shot duration: 2-3 seconds", the pacing rule of the prompt.
MinCutDuration == 2

RECURSIVE CutCount(_)
CutCount(edits) ==
    IF edits = <<>> THEN 0
    ELSE Len(Last(edits).edl.cuts) + CutCount(Front(edits))

Init ==
    /\ speaker_segments = <<>>
    /\ role_mapping = [s \in {} |-> "host"]
    /\ rpc = "segments"
    /\ chapters \in ChapterMaps
    /\ dpc = "start"
    /\ idx = 1
    /\ outcomes = <<>>
    /\ final_edits = <<>>
    /\ director_edits_file = [exists |-> FALSE, edits |-> <<>>]
    /\ fpc = "idle"
    /\ full_edl = <<>>
    /\ fcpxml = NoProject
    /\ ContextIdle
    /\ IdentifyIdle
    /\ IngestIdle

\* get_index() returned an index: the chapter loop starts.
IndexLoaded ==
    /\ dpc = "start"
    /\ dpc' = "loop"
    /\ UNCHANGED <<ingest_vars, identify_vars, context_vars, role_vars, chapters, idx, outcomes, final_edits,
                   director_edits_file, finishing_vars>>

\* "Could not load the index. Aborting.": return before the loop.
IndexMissing ==
    /\ dpc = "start"
    /\ dpc' = "no_index"
    /\ UNCHANGED <<ingest_vars, identify_vars, context_vars, role_vars, chapters, idx, outcomes, final_edits,
                   director_edits_file, finishing_vars>>

\* query_engine.query raises (or times out) for the chapter at idx: the call
\* is outside every try, so the exception leaves run_director_pass.
QueryRaises ==
    /\ dpc = "loop"
    /\ idx <= Len(chapters)
    /\ outcomes' = Append(outcomes, "query_raise")
    /\ dpc' = "crashed"
    /\ UNCHANGED <<ingest_vars, identify_vars, context_vars, role_vars, chapters, idx, final_edits, director_edits_file,
                   finishing_vars>>

\* The query succeeds; generate_content raises, or json.loads rejects the
\* text: except Exception ... continue.
OracleFails ==
    /\ dpc = "loop"
    /\ idx <= Len(chapters)
    /\ \E kind \in {"oracle_raise", "bad_json"} :
          outcomes' = Append(outcomes, kind)
    /\ idx' = idx + 1
    /\ UNCHANGED <<ingest_vars, identify_vars, context_vars, role_vars, chapters, dpc, final_edits, director_edits_file,
                   finishing_vars>>

\* An entry that takes the place of the list instead of being appended to it.
OracleReturnsOtherJsonReplacing ==
    /\ dpc = "loop"
    /\ idx <= Len(chapters)
    /\ outcomes' = Append(outcomes, "json_other")
    /\ final_edits' = <<[chapter_title |-> chapters[idx].title,
                         edl |-> [has_cuts |-> FALSE, cuts |-> <<>>]]>>
    /\ idx' = idx + 1
    /\ UNCHANGED <<ingest_vars, identify_vars, context_vars, role_vars, chapters, dpc,
                   director_edits_file, finishing_vars>>

\* The query succeeds and json.loads accepts the text, which is a JSON object
\* without the key "cuts": it is appended as it is.
OracleReturnsOtherJson ==
    /\ dpc = "loop"
    /\ idx <= Len(chapters)
    /\ outcomes' = Append(outcomes, "json_other")
    /\ final_edits' = Append(final_edits,
          [chapter_title |-> chapters[idx].title,
           edl |-> [has_cuts |-> FALSE, cuts |-> <<>>]])
    /\ idx' = idx + 1
    /\ UNCHANGED <<ingest_vars, identify_vars, context_vars, role_vars, chapters, dpc, director_edits_file, finishing_vars>>

\* The query succeeds and the text is {"cuts": [...]}: appended as it is.
OracleReturnsCuts ==
    /\ dpc = "loop"
    /\ idx <= Len(chapters)
    /\ \E cuts \in BoundedSeq(OracleCuts, MaxCuts - CutCount(final_edits)) :
          final_edits' = Append(final_edits,
              [chapter_title |-> chapters[idx].title,
               edl |-> [has_cuts |-> TRUE, cuts |-> cuts]])
    /\ outcomes' = Append(outcomes, "cuts")
    /\ idx' = idx + 1
    /\ UNCHANGED <<ingest_vars, identify_vars, context_vars, role_vars, chapters, dpc, director_edits_file, finishing_vars>>

\* After the loop: json.dump({"director_edits": final_edits}).
SaveEdits ==
    /\ dpc = "loop"
    /\ idx > Len(chapters)
    /\ director_edits_file' = [exists |-> TRUE, edits |-> final_edits]
    /\ dpc' = "done"
    /\ UNCHANGED <<ingest_vars, identify_vars, context_vars, role_vars, chapters, idx, outcomes, final_edits, finishing_vars>>

----------------------------------------------------------------------------
(* Finishing pass: podcast_editor/finishing_pass.py *)

\* full_edl.extend(chapter_edit['edl']['cuts']) for every entry with 'cuts'.
RECURSIVE ExtendAll(_)
ExtendAll(edits) ==
    IF edits = <<>> THEN <<>>
    ELSE ExtendAll(Front(edits)) \o
         (IF Last(edits).edl.has_cuts THEN Last(edits).edl.cuts ELSE <<>>)

\* An insertion that puts a cut before the cuts of equal start_time.
InsertBeforeEqualStart(sorted, cut) ==
    LET k == Cardinality({j \in 1..Len(sorted) : sorted[j].start_time < cut.start_time})
    IN  SubSeq(sorted, 1, k) \o <<cut>> \o SubSeq(sorted, k + 1, Len(sorted))

\* One step of list.sort(key=start_time): stable and ascending.
InsertByStart(sorted, cut) ==
    LET k == Cardinality({j \in 1..Len(sorted) : sorted[j].start_time <= cut.start_time})
    IN  SubSeq(sorted, 1, k) \o <<cut>> \o SubSeq(sorted, k + 1, Len(sorted))

RECURSIVE SortByStart(_)
SortByStart(cuts) ==
    IF cuts = <<>> THEN <<>>
    ELSE InsertByStart(SortByStart(Front(cuts)), Last(cuts))

Stitch(edits) == SortByStart(ExtendAll(edits))

\* generate_flattened_fcpxml looks up asset_ids[camera_id] for every cut.
SerializerRaisesKeyError(edl) ==
    \E k \in 1..Len(edl) : edl[k].camera_id \notin DeclaredCameras

FRAME_RATE == 30

\* Times of the finishing-pass specification are counted in ticks of 1/8 s:
\* such values and their products with FRAME_RATE are exact in binary
\* floating point, so the integer arithmetic below is the float arithmetic.
TicksPerSecond == 8

\* int(n / d): Python's int() truncates toward zero.
IntOf(n, d) == IF n >= 0 THEN n \div d ELSE -((-n) \div d)

\* int(t * FRAME_RATE), the numerator of f"{...}/{FRAME_RATE}s", for a time t
\* given in units of 1/unit s.
Frames(t, unit) == IntOf(t * FRAME_RATE, unit)

\* The keys of SOURCE_VIDEOS in the order of the dict.
SOURCE_VIDEOS == <<"cam_host", "cam_guest", "cam_wide">>

\* f"r{n}"
ResourceId(n) == "r" \o ToString(n)

fmt_id == ResourceId(1)

\* Every camera gets the id of the format.
AssetIdEqualToFormat(i) == fmt_id

\* asset_id = f"r{i+2}" for the i-th entry of enumerate(video_sources.items()).
AssetId(i) == ResourceId(i + 2)

\* asset_ids[cam_id], filled in the order of SOURCE_VIDEOS.
asset_ids ==
    [cam \in DeclaredCameras |->
        AssetId((CHOOSE k \in 1..Len(SOURCE_VIDEOS) : SOURCE_VIDEOS[k] = cam) - 1)]

\* The <asset> elements of the resources section, in the order of emission.
AssetsOf(total_duration) ==
    [k \in 1..Len(SOURCE_VIDEOS) |->
        [id |-> AssetId(k - 1), name |-> SOURCE_VIDEOS[k],
         format |-> fmt_id, duration |-> total_duration]]

\* The <clip> element of one cut with its <video>/<audio> children; offset,
\* duration and start are numerators over FRAME_RATE.
ClipOf(cut, unit) ==
    [name |-> cut.camera_id,
     offset |-> Frames(cut.start_time, unit),
     duration |-> Frames(cut.end_time - cut.start_time, unit),
     format |-> fmt_id,
     video_ref |-> asset_ids[cut.camera_id],
     audio_ref |-> asset_ids[cut.camera_id],
     start |-> Frames(cut.start_time, unit)]

\* int(total_duration_seconds * FRAME_RATE), from the last cut of the list.
TotalDuration(edl, unit) ==
    IF edl = <<>> THEN 0 ELSE Frames(Last(edl).end_time, unit)

\* A serializer that lets every clip run up to the start of the next cut.
generate_bridged_fcpxml(edl, unit) ==
    [written |-> TRUE,
     formats |-> <<fmt_id>>,
     assets |-> AssetsOf(TotalDuration(edl, unit)),
     duration |-> TotalDuration(edl, unit),
     clips |-> [k \in 1..Len(edl) |->
                   IF k < Len(edl)
                   THEN [ClipOf(edl[k], unit) EXCEPT
                            !.duration = Frames(edl[k + 1].start_time, unit)
                                          - Frames(edl[k].start_time, unit)]
                   ELSE ClipOf(edl[k], unit)]]

\* generate_flattened_fcpxml: the format, the assets, the sequence duration
\* and the spine.
generate_flattened_fcpxml(edl, unit) ==
    [written |-> TRUE,
     formats |-> <<fmt_id>>,
     assets |-> AssetsOf(TotalDuration(edl, unit)),
     duration |-> TotalDuration(edl, unit),
     clips |-> [k \in 1..Len(edl) |-> ClipOf(edl[k], unit)]]

\* The body of run_finishing_pass for times in units of 1/unit s.
FinishingPass(unit) ==
    /\ fpc = "idle"
    /\ IF ~director_edits_file.exists
       THEN /\ fpc' = "no_file"
            /\ full_edl' = <<>>
            /\ fcpxml' = fcpxml
       ELSE LET stitched == Stitch(director_edits_file.edits)
            IN  /\ full_edl' = stitched
                /\ fpc' = IF stitched = <<>> THEN "no_cuts"
                          ELSE IF SerializerRaisesKeyError(stitched) THEN "key_error"
                          ELSE "written"
                /\ fcpxml' = IF stitched = <<>> \/ SerializerRaisesKeyError(stitched)
                             THEN fcpxml
                             ELSE generate_flattened_fcpxml(stitched, unit)
    /\ UNCHANGED <<ingest_vars, identify_vars, context_vars, role_vars, director_vars>>

\* run_finishing_pass, run once the director pass has ended.
RunFinishingPass ==
    /\ dpc \in {"done", "crashed", "no_index"}
    /\ FinishingPass(1)

Next ==
    \/ IndexLoaded
    \/ IndexMissing
    \/ QueryRaises
    \/ OracleFails
    \/ OracleReturnsOtherJson
    \/ OracleReturnsCuts
    \/ SaveEdits
    \/ RunFinishingPass

Spec == Init /\ [][Next]_vars

----------------------------------------------------------------------------
(* The finishing pass on its own, with times on the 1/8 s grid *)

MaxTick == 5
MaxClips == 2

TickCameras == {"cam_host", "cam_wide", "cam_x"}

\* Cuts as a director_edits.json may hold them, times in ticks.
TickCuts ==
    {cut \in [start_time : 0..MaxTick, end_time : 0..MaxTick, camera_id : TickCameras] :
        cut.start_time < cut.end_time}

CutsEntry(title, cuts) ==
    [chapter_title |-> title, edl |-> [has_cuts |-> TRUE, cuts |-> cuts]]

OtherEntry(title) ==
    [chapter_title |-> title, edl |-> [has_cuts |-> FALSE, cuts |-> <<>>]]

\* The entries of a director_edits.json: the cuts of one list shared out over
\* two chapters, with or without an entry lacking "cuts" between them.
TickEdits(cuts, i, other) ==
    <<CutsEntry(1, SubSeq(cuts, 1, i))>>
        \o (IF other THEN <<OtherEntry(2)>> ELSE <<>>)
        \o <<CutsEntry(3, SubSeq(cuts, i + 1, Len(cuts)))>>

FinishingInit ==
    /\ speaker_segments = <<>>
    /\ role_mapping = [s \in {} |-> "host"]
    /\ rpc = "segments"
    /\ chapters = <<>>
    /\ dpc = "done"
    /\ idx = 1
    /\ outcomes = <<>>
    /\ final_edits = <<>>
    /\ \/ director_edits_file = [exists |-> FALSE, edits |-> <<>>]
       \/ \E cuts \in BoundedSeq(TickCuts, MaxClips) :
             \E i \in 0..Len(cuts), other \in BOOLEAN :
                director_edits_file =
                    [exists |-> TRUE, edits |-> TickEdits(cuts, i, other)]
    /\ fpc = "idle"
    /\ full_edl = <<>>
    /\ fcpxml = NoProject
    /\ ContextIdle
    /\ IdentifyIdle
    /\ IngestIdle

\* run_finishing_pass on a director_edits.json with times in ticks.
RunFinishingPassOnTicks == FinishingPass(TicksPerSecond)

FinishingNext == RunFinishingPassOnTicks

SpecFinishing == FinishingInit /\ [][FinishingNext]_vars

----------------------------------------------------------------------------
(* Local context of a chapter: podcast_editor/producer_pass.py *)

MaxTime == 3
MaxWords == 3
VIDEO_INTERVAL_SECONDS == 2

ContextCameras == {"cam_host", "cam_guest"}

\* The roles transcribe_audio writes into a word's "speaker" key; "" stands
\* for a word that has no such key.
WordSpeakers == {"host", "guest", ""}

\* Whisper's words in the order of the recording; the word text is the
\* position in the log, so that every word can be told from every other.
AudioLogs ==
    {[k \in 1..Len(w) |-> [word |-> k, start |-> w[k][1], speaker |-> w[k][2]]] :
     w \in {x \in BoundedSeq((0..MaxTime) \X WordSpeakers, MaxWords) :
               \A k \in 1..(Len(x) - 1) : x[k][1] <= x[k + 1][1]}}

\* describe_video samples a frame every VIDEO_INTERVAL_SECONDS and skips the
\* frames it cannot read.
SampleTimes == {t \in 0..MaxTime : t % VIDEO_INTERVAL_SECONDS = 0}

RECURSIVE AscendingSeq(_)
AscendingSeq(S) ==
    IF S = {} THEN <<>>
    ELSE LET top == CHOOSE t \in S : \A u \in S : u <= t
         IN  Append(AscendingSeq(S \ {top}), top)

VideoLog(S) == [k \in 1..Cardinality(S) |-> [timestamp |-> AscendingSeq(S)[k]]]

VideoLogs == {VideoLog(S) : S \in SUBSET SampleTimes}

ChapterIntervals ==
    {sp \in [start_time : 0..MaxTime, end_time : 0..MaxTime] :
        sp.start_time < sp.end_time}

\* item.get('speaker', 'unknown')
SpeakerOf(item) == IF item.speaker = "" THEN "unknown" ELSE item.speaker

\* str.upper() on the labels in use.
Upper(label) ==
    CASE label = "host" -> "HOST"
      [] label = "guest" -> "GUEST"
      [] label = "unknown" -> "UNKNOWN"

\* f"[{current_speaker.upper()}]: {' '.join(current_text)}"
TranscriptPart(speaker, text) == [tag |-> Upper(speaker), words |-> text]

\* The loop over master_audio_log: transcript_parts, current_speaker and
\* current_text after the items of log; "None" is the initial current_speaker.
RECURSIVE TranscriptLoop(_, _, _)
TranscriptLoop(log, start_time, end_time) ==
    IF log = <<>>
    THEN [transcript_parts |-> <<>>, current_speaker |-> "None", current_text |-> <<>>]
    ELSE LET st == TranscriptLoop(Front(log), start_time, end_time)
             item == Last(log)
         IN  IF ~(start_time <= item.start /\ item.start < end_time) THEN st
             ELSE LET speaker == SpeakerOf(item)
                      switch == speaker # st.current_speaker
                      flush == switch /\ st.current_text # <<>>
                  IN  [transcript_parts |->
                          IF flush
                          THEN Append(st.transcript_parts,
                                      TranscriptPart(st.current_speaker, st.current_text))
                          ELSE st.transcript_parts,
                       current_speaker |-> speaker,
                       current_text |->
                          Append(IF flush THEN <<>> ELSE st.current_text, item.word)]

\* The loop without the flush that follows it: the last run is lost.
FormatTranscriptWithoutFinalFlush(log, start_time, end_time) ==
    TranscriptLoop(log, start_time, end_time).transcript_parts

\* The loop and the final "if current_text" flush.
FormatTranscript(log, start_time, end_time) ==
    LET st == TranscriptLoop(log, start_time, end_time)
    IN  IF st.current_text # <<>>
        THEN Append(st.transcript_parts,
                    TranscriptPart(st.current_speaker, st.current_text))
        ELSE st.transcript_parts

InInterval(item, start_time, end_time) ==
    start_time <= item.timestamp /\ item.timestamp < end_time

\* visuals of one camera: the items of its log inside the interval.
FormatVisuals(log, start_time, end_time) ==
    SelectSeq(log, LAMBDA item : InInterval(item, start_time, end_time))

format_multicam_local_context(start_time, end_time, log, logs) ==
    [transcript_parts |-> FormatTranscript(log, start_time, end_time),
     visuals |-> [cam \in DOMAIN logs |->
                     FormatVisuals(logs[cam], start_time, end_time)]]

ContextInit ==
    /\ speaker_segments = <<>>
    /\ role_mapping = [s \in {} |-> "host"]
    /\ rpc = "segments"
    /\ chapters = <<>>
    /\ dpc = "start"
    /\ idx = 1
    /\ outcomes = <<>>
    /\ final_edits = <<>>
    /\ director_edits_file = [exists |-> FALSE, edits |-> <<>>]
    /\ fpc = "idle"
    /\ full_edl = <<>>
    /\ fcpxml = NoProject
    /\ master_audio_log \in AudioLogs
    /\ video_logs \in [ContextCameras -> VideoLogs]
    /\ chapter_span \in ChapterIntervals
    /\ local_context = NoContext
    /\ cpc = "inputs"
    /\ IdentifyIdle
    /\ IngestIdle

\* run_director_pass: local_context = format_multicam_local_context(...)
BuildLocalContext ==
    /\ cpc = "inputs"
    /\ local_context' = format_multicam_local_context(
          chapter_span.start_time, chapter_span.end_time,
          master_audio_log, video_logs)
    /\ cpc' = "built"
    /\ UNCHANGED <<master_audio_log, video_logs, chapter_span,
                   role_vars, director_vars, finishing_vars, identify_vars,
                   ingest_vars>>

ContextNext == BuildLocalContext

SpecContext == ContextInit /\ [][ContextNext]_vars

----------------------------------------------------------------------------
(* Speaker identification: speaker_identification.py, identify_speakers *)

EXPECTED_SPEAKERS == 4
MIN_SPEAKERS == 2
MAX_SPEAKERS == 6
FALLBACK_MIN_SPEAKERS == 2
FALLBACK_MAX_SPEAKERS == 8

MaxSegments == 2

\* The signatures whisperx's DiarizationPipeline.__call__ has had: with and
\* without num_speakers beside min_speakers and max_speakers.
DiarizerSignatures ==
    {{"min_speakers", "max_speakers"},
     {"num_speakers", "min_speakers", "max_speakers"}}

DiarizedIds == {"SPEAKER_00", "SPEAKER_01"}

\* _call_diarizer: the keyword arguments the engine is called with; 0 stands
\* for an argument that is not passed, and for expected_speakers=None.
CallKwargs(params, expected_speakers, min_speakers, max_speakers) ==
    IF expected_speakers # 0 /\ "num_speakers" \in params
    THEN [num_speakers |-> expected_speakers, min_speakers |-> 0, max_speakers |-> 0]
    ELSE [num_speakers |-> 0,
          min_speakers |-> IF "min_speakers" \in params THEN min_speakers ELSE 0,
          max_speakers |-> IF "max_speakers" \in params THEN max_speakers ELSE 0]

\* What one diarization plus assign_word_speakers can give for n transcript
\* segments: the turns of the annotation and a label, or none, per segment.
DiarizeOutcomes(n) ==
    UNION {{[turns |-> t, labels |-> l] :
              l \in [1..n -> {t[k] : k \in 1..Len(t)} \cup {""}]} :
           t \in BoundedSeq(DiarizedIds, MaxSegments)}

\* len({seg.get("speaker", "SPEAKER_00") for seg in assigned["segments"]})
UniqueSpeakers(labels) ==
    Cardinality({IF labels[k] = "" THEN "SPEAKER_00" ELSE labels[k] :
                 k \in 1..Len(labels)})

\* assigned = result: the aligned transcription, no segment has a speaker.
TranscriptionOnly(n) == [k \in 1..n |-> ""]

IdentifyInit ==
    /\ speaker_segments = <<>>
    /\ role_mapping = [s \in {} |-> "host"]
    /\ rpc = "segments"
    /\ chapters = <<>>
    /\ dpc = "start"
    /\ idx = 1
    /\ outcomes = <<>>
    /\ final_edits = <<>>
    /\ director_edits_file = [exists |-> FALSE, edits |-> <<>>]
    /\ fpc = "idle"
    /\ full_edl = <<>>
    /\ fcpxml = NoProject
    /\ ContextIdle
    /\ ipc = "start"
    /\ diarizer_params \in DiarizerSignatures
    /\ is_temp = FALSE
    /\ temp_exists = FALSE
    /\ input_exists = TRUE
    /\ cleanup = "none"
    /\ result_segments = 0
    /\ NotDiarized
    /\ IngestIdle

identify_rest == <<role_vars, director_vars, finishing_vars, context_vars,
                   ingest_vars>>

\* prepare_audio_for_diarization: ValueError for less than 10 s of audio, a
\* temporary file when the audio is truncated, the input file otherwise.
PrepareAudio ==
    /\ ipc = "start"
    /\ \/ /\ ipc' = "raised"
          /\ UNCHANGED <<is_temp, temp_exists>>
       \/ /\ ipc' = "transcribe"
          /\ \E truncated \in BOOLEAN :
                /\ is_temp' = truncated
                /\ temp_exists' = truncated
    /\ UNCHANGED <<diarizer_params, input_exists, cleanup, result_segments,
                   diarize_segments, assigned, diarizer_calls, first_unique,
                   pending_raise, returned_segments, identify_rest>>

\* Steps 1 to 3: load_model, transcribe, align. An exception leaves through
\* the finally block.
TranscribeAndAlign ==
    /\ ipc = "transcribe"
    /\ \/ /\ ipc' = "finally"
          /\ pending_raise' = TRUE
          /\ UNCHANGED result_segments
       \/ /\ ipc' = "diarize"
          /\ result_segments' \in 0..MaxSegments
          /\ UNCHANGED pending_raise
    /\ UNCHANGED <<diarizer_params, is_temp, temp_exists, input_exists, cleanup,
                   diarize_segments, assigned,
                   diarizer_calls, first_unique, returned_segments, identify_rest>>

\* _build_diarizer; its exception is caught by the except of the inner try.
BuildDiarizer ==
    /\ ipc = "diarize"
    /\ \/ /\ ipc' = "first"
          /\ UNCHANGED assigned
       \/ /\ ipc' = "extract"
          /\ assigned' = TranscriptionOnly(result_segments)
    /\ UNCHANGED <<diarizer_params, is_temp, temp_exists, input_exists, cleanup,
                   result_segments,
                   diarize_segments, diarizer_calls, first_unique, pending_raise,
                   returned_segments, identify_rest>>

\* One attempt: _call_diarizer with the given hints, then
\* assign_word_speakers. The call raises, or it returns and the assignment
\* raises, or both succeed.
Attempt(expected_speakers, min_speakers, max_speakers, first) ==
    LET kwargs == CallKwargs(diarizer_params, expected_speakers,
                             min_speakers, max_speakers)
    IN  \/ /\ diarizer_calls' = Append(diarizer_calls, [kwargs |-> kwargs, raised |-> TRUE])
           /\ assigned' = TranscriptionOnly(result_segments)
           /\ ipc' = "extract"
           /\ UNCHANGED <<diarize_segments, first_unique>>
        \/ /\ diarizer_calls' = Append(diarizer_calls, [kwargs |-> kwargs, raised |-> FALSE])
           /\ \E out \in DiarizeOutcomes(result_segments) :
                 /\ diarize_segments' = [bound |-> TRUE, turns |-> out.turns]
                 /\ \/ /\ assigned' = TranscriptionOnly(result_segments)
                       /\ ipc' = "extract"
                       /\ UNCHANGED first_unique
                    \/ /\ assigned' = out.labels
                       /\ first_unique' = IF first THEN UniqueSpeakers(out.labels)
                                          ELSE first_unique
                       /\ ipc' = IF first /\ UniqueSpeakers(out.labels) <= 1
                                 THEN "fallback" ELSE "extract"

\* First attempt: exact number if known, else [MIN, MAX].
FirstAttempt ==
    /\ ipc = "first"
    /\ Attempt(EXPECTED_SPEAKERS, MIN_SPEAKERS, MAX_SPEAKERS, TRUE)
    /\ UNCHANGED <<diarizer_params, is_temp, temp_exists, input_exists, cleanup,
                   result_segments,
                   pending_raise, returned_segments, identify_rest>>

\* Fallback attempt if collapsed to 1 speaker.
FallbackAttempt ==
    /\ ipc = "fallback"
    /\ Attempt(0, FALLBACK_MIN_SPEAKERS, FALLBACK_MAX_SPEAKERS, FALSE)
    /\ UNCHANGED <<diarizer_params, is_temp, temp_exists, input_exists, cleanup,
                   result_segments,
                   pending_raise, returned_segments, identify_rest>>

\* speaker_id per segment of assigned, SPEAKER_00 where there is no label.
ExtractedIds(labels) ==
    [k \in 1..Len(labels) |-> IF labels[k] = "" THEN "SPEAKER_00" ELSE labels[k]]

\* Extract speaker segments; if they collapse to one speaker and
\* diarize_segments is bound, rebuild them from the raw annotation, keeping
\* what was rebuilt when itertracks raises.
ExtractSegments ==
    /\ ipc = "extract"
    /\ IF UniqueSpeakers(assigned) <= 1 /\ diarize_segments.bound
       THEN \E k \in 0..Len(diarize_segments.turns) :
               returned_segments' = SubSeq(diarize_segments.turns, 1, k)
       ELSE returned_segments' = ExtractedIds(assigned)
    /\ ipc' = "finally"
    /\ UNCHANGED <<diarizer_params, is_temp, temp_exists, input_exists, cleanup,
                   result_segments,
                   diarize_segments, assigned, diarizer_calls, first_unique,
                   pending_raise, identify_rest>>

\* a cleanup that trusts os.path.exists alone
RemoveWheneverOnDisk(created, on_disk) == on_disk

\* if is_temp and os.path.exists(processed_audio)
ShouldRemove(created, on_disk) == created /\ on_disk

\* finally: remove processed_audio, the temporary file when is_temp and the
\* input path otherwise; os.remove can fail, which prints a warning. Then
\* return or let the pending exception out.
CleanUp ==
    /\ ipc = "finally"
    /\ LET on_disk == IF is_temp THEN temp_exists ELSE input_exists
       IN  IF ShouldRemove(is_temp, on_disk)
           THEN \E removed \in BOOLEAN :
                   /\ cleanup' = IF removed THEN "removed" ELSE "warned"
                   /\ IF is_temp
                      THEN temp_exists' = ~removed /\ UNCHANGED input_exists
                      ELSE input_exists' = ~removed /\ UNCHANGED temp_exists
           ELSE UNCHANGED <<temp_exists, input_exists, cleanup>>
    /\ ipc' = IF pending_raise THEN "raised" ELSE "returned"
    /\ UNCHANGED <<diarizer_params, is_temp, result_segments, diarize_segments,
                   assigned, diarizer_calls, first_unique, pending_raise,
                   returned_segments, identify_rest>>

IdentifyNext ==
    \/ PrepareAudio
    \/ TranscribeAndAlign
    \/ BuildDiarizer
    \/ FirstAttempt
    \/ FallbackAttempt
    \/ ExtractSegments
    \/ CleanUp

SpecIdentify == IdentifyInit /\ [][IdentifyNext]_vars

----------------------------------------------------------------------------
(* Retrieval index: rag_agent.py load_and_prepare_documents, and the same
   bucketing in populate_memory.py populate_memory_from_log *)

\* The editing pipeline and the speaker identification have not started.
EditingIdle ==
    /\ speaker_segments = <<>>
    /\ role_mapping = [s \in {} |-> "host"]
    /\ rpc = "segments"
    /\ chapters = <<>>
    /\ dpc = "start"
    /\ idx = 1
    /\ outcomes = <<>>
    /\ final_edits = <<>>
    /\ director_edits_file = [exists |-> FALSE, edits |-> <<>>]
    /\ fpc = "idle"
    /\ full_edl = <<>>
    /\ fcpxml = NoProject
    /\ ContextIdle
    /\ IdentifyIdle

CHUNK_DURATION_SECONDS == 10

\* Times of the index specification are counted in half seconds.
HalvesPerSecond == 2

\* latest word start, in half seconds (10.5 s)
MaxIndexTime == 21
MaxLogWords == 2

\* a word lasts no time or half a second
WordSpans == {0, 1}

IndexWords ==
    {[start |-> s, end |-> s + d] : s \in 0..MaxIndexTime, d \in WordSpans}

\* Whisper returns the words in time order.
IndexAudioLogs ==
    {log \in BoundedSeq(IndexWords, MaxLogWords) :
        \A i \in 1..(Len(log) - 1) : log[i].start <= log[i + 1].start}

\* the frame descriptions: none, one at 0 s, or one at 0 s and one at 10 s
IndexVideoLogs ==
    {<<>>,
     <<[timestamp |-> 0]>>,
     <<[timestamp |-> 0], [timestamp |-> CHUNK_DURATION_SECONDS * HalvesPerSecond]>>}

\* list(range(0, stop, step)) for stop >= 0 and step > 0
RangeFromZero(stop, step) ==
    [k \in 1..((stop + step - 1) \div step) |-> (k - 1) * step]

\* positions of the audio log with start_time <= item['start'] < end_time,
\* the bucket given in seconds and the items in half seconds
words_in_chunk(log, start_time, end_time) ==
    SelectSeq([i \in 1..Len(log) |-> i],
              LAMBDA i : /\ start_time * HalvesPerSecond <= log[i].start
                         /\ log[i].start < end_time * HalvesPerSecond)

\* relevant_descriptions[-1] if relevant_descriptions else "No visual data.";
\* a description is named by its position in the video log, 0 for none
visual_context(log, start_time) ==
    LET relevant_descriptions ==
            SelectSeq([i \in 1..Len(log) |-> i],
                      LAMBDA i : log[i].timestamp <= start_time * HalvesPerSecond)
    IN  IF relevant_descriptions = <<>> THEN 0 ELSE Last(relevant_descriptions)

DocumentOf(alog, vlog, start_time) ==
    [start_time |-> start_time,
     end_time |-> start_time + CHUNK_DURATION_SECONDS,
     words |-> words_in_chunk(alog, start_time, start_time + CHUNK_DURATION_SECONDS),
     visual_context |-> visual_context(vlog, start_time)]

\* one document per bucket start of range(0, int(total_duration),
\* int(CHUNK_DURATION_SECONDS)) whose transcript chunk is not empty
load_and_prepare_documents(alog, vlog) ==
    IF alog = <<>> THEN <<>>
    ELSE LET total_duration == Last(alog).end
             starts == RangeFromZero(IntOf(total_duration, HalvesPerSecond),
                                     CHUNK_DURATION_SECONDS)
             docs == [k \in 1..Len(starts) |-> DocumentOf(alog, vlog, starts[k])]
         IN  SelectSeq(docs, LAMBDA d : d.words # <<>>)

IndexInit ==
    /\ EditingIdle
    /\ MainIdle
    /\ LabelIdle
    /\ audio_log \in IndexAudioLogs
    /\ video_log \in IndexVideoLogs
    /\ documents = <<>>
    /\ xpc = "loaded"

PrepareDocuments ==
    /\ xpc = "loaded"
    /\ documents' = load_and_prepare_documents(audio_log, video_log)
    /\ xpc' = "prepared"
    /\ UNCHANGED <<audio_log, video_log, main_vars, label_vars, role_vars,
                   director_vars, finishing_vars, context_vars, identify_vars>>

IndexNext == PrepareDocuments

SpecIndex == IndexInit /\ [][IndexNext]_vars

----------------------------------------------------------------------------
(* Ingestion: main.py main, video_p.py describe_video *)

\* the camera ids of VIDEO_FILES in the order of the dict
VIDEO_FILES == <<"cam_host", "cam_guest", "cam_wide">>

MainCameras == {VIDEO_FILES[k] : k \in 1..Len(VIDEO_FILES)}

\* the keyword arguments of main's call describe_video(file_path, ...)
CallKeywords == {"interval_seconds", "duration_limit_seconds", "camera_id"}

\* the parameters of def describe_video(video_path, interval_seconds=1)
describe_video_parameters == {"video_path", "interval_seconds"}

\* Python raises TypeError for a keyword argument that is no parameter.
CallRaisesTypeError == ~(CallKeywords \subseteq describe_video_parameters)

\* describe_video as main calls it: TRUE when it returns a log, FALSE when
\* it raises, either at the call or inside the description engine
describe_video_returns(cam) == ~CallRaisesTypeError /\ engine_ok[cam]

MainInit ==
    /\ EditingIdle
    /\ IndexIdle
    /\ LabelIdle
    /\ mpc = "start"
    /\ source_exists \in [MainCameras -> BOOLEAN]
    /\ engine_ok \in [MainCameras -> BOOLEAN]
    /\ cam_pos = 1
    /\ main_video_logs = {}
    /\ combined_data = NotSaved

main_rest == <<index_vars, label_vars, role_vars, director_vars, finishing_vars,
               context_vars, identify_vars>>

\* phases 0 and 1: identify_speakers and transcribe_audio are called outside
\* any try, so an exception of either ends main.
IdentifyAndTranscribe ==
    /\ mpc = "start"
    /\ mpc' \in {"cameras", "crashed"}
    /\ UNCHANGED <<source_exists, engine_ok, cam_pos, main_video_logs,
                   combined_data, main_rest>>

\* one iteration of the loop over VIDEO_FILES.items()
ProcessCamera ==
    /\ mpc = "cameras"
    /\ cam_pos <= Len(VIDEO_FILES)
    /\ LET cam_id == VIDEO_FILES[cam_pos]
       IN  main_video_logs' =
               IF source_exists[cam_id] /\ describe_video_returns(cam_id)
               THEN main_video_logs \cup {cam_id}
               ELSE main_video_logs
    /\ cam_pos' = cam_pos + 1
    /\ UNCHANGED <<mpc, source_exists, engine_ok, combined_data, main_rest>>

\* phase 3: json.dump(combined_data)
SaveCombinedData ==
    /\ mpc = "cameras"
    /\ cam_pos > Len(VIDEO_FILES)
    /\ combined_data' = [saved |-> TRUE, video_logs |-> main_video_logs]
    /\ mpc' = "saved"
    /\ UNCHANGED <<source_exists, engine_ok, cam_pos, main_video_logs, main_rest>>

MainNext ==
    \/ IdentifyAndTranscribe
    \/ ProcessCamera
    \/ SaveCombinedData

SpecMain == MainInit /\ [][MainNext]_vars

----------------------------------------------------------------------------
(* Word labelling: audio_p.py transcribe_audio, get_speaker_at_time *)

MaxLabelSegments == 2
MaxLabelWords == 2

LabelSpeakerIds == {"SPEAKER_00", "SPEAKER_01"}

\* the speaker_segments of speaker_map.json
LabelSegments ==
    BoundedSeq({t \in SpeakerTurns : t.speaker_id \in LabelSpeakerIds},
               MaxLabelSegments)

\* word_info['start'] of the transcribed words, in seconds: inside a turn, on
\* the boundary of two turns, and after the last turn
WordStarts == {5, 10, 50, 200}

TranscribedWords ==
    {ws \in BoundedSeq(WordStarts, MaxLabelWords) :
        \A i \in 1..(Len(ws) - 1) : ws[i] <= ws[i + 1]}

\* a test that leaves the end of the segment out
SegmentContainsHalfOpen(seg, timestamp) ==
    seg.start <= timestamp /\ timestamp < seg.end

\* seg['start'] <= timestamp <= seg['end']
SegmentContains(seg, timestamp) ==
    seg.start <= timestamp /\ timestamp <= seg.end

\* role_mapping.get(speaker_id, speaker_id)
RoleOrId(mapping, speaker_id) ==
    IF speaker_id \in DOMAIN mapping THEN mapping[speaker_id] ELSE speaker_id

\* the for loop from position k on: the first segment containing the
\* timestamp decides, "unknown" when the list is exhausted
RECURSIVE SpeakerFrom(_, _, _, _)
SpeakerFrom(k, timestamp, segs, mapping) ==
    IF k > Len(segs) THEN "unknown"
    ELSE IF SegmentContains(segs[k], timestamp)
         THEN RoleOrId(mapping, segs[k].speaker_id)
         ELSE SpeakerFrom(k + 1, timestamp, segs, mapping)

get_speaker_at_time(timestamp, segs, mapping) ==
    SpeakerFrom(1, timestamp, segs, mapping)

\* word_entry of one word: the speaker key is set only with speaker data
WordEntry(start, loaded, segs, mapping) ==
    IF loaded
    THEN [start |-> start, speaker |-> get_speaker_at_time(start, segs, mapping)]
    ELSE [start |-> start]

\* The speaker map is the one main wrote, or one whose role_mapping lacks
\* some of the speaker ids.
LabelInit ==
    /\ speaker_segments \in LabelSegments
    /\ \E known \in SUBSET LabelSpeakerIds :
          LET mapping == create_speaker_role_mapping(speaker_segments)
          IN  role_mapping = [s \in known \cap DOMAIN mapping |-> mapping[s]]
    /\ rpc = "mapped"
    /\ chapters = <<>>
    /\ dpc = "start"
    /\ idx = 1
    /\ outcomes = <<>>
    /\ final_edits = <<>>
    /\ director_edits_file = [exists |-> FALSE, edits |-> <<>>]
    /\ fpc = "idle"
    /\ full_edl = <<>>
    /\ fcpxml = NoProject
    /\ ContextIdle
    /\ IdentifyIdle
    /\ IndexIdle
    /\ MainIdle
    /\ transcribed_words \in TranscribedWords
    /\ speaker_map_loaded \in BOOLEAN
    /\ word_log = <<>>
    /\ wpc = "transcribed"

\* transcribe_audio: the loop over the words of all segments
LabelWords ==
    /\ wpc = "transcribed"
    /\ word_log' = [i \in 1..Len(transcribed_words) |->
                       WordEntry(transcribed_words[i], speaker_map_loaded,
                                 speaker_segments, role_mapping)]
    /\ wpc' = "logged"
    /\ UNCHANGED <<transcribed_words, speaker_map_loaded, index_vars, main_vars,
                   role_vars, director_vars, finishing_vars, context_vars,
                   identify_vars>>

LabelNext == LabelWords

SpecLabel == LabelInit /\ [][LabelNext]_vars

----------------------------------------------------------------------------
(* Properties of the director pass and the finishing pass *)

Terminated == dpc \in {"done", "crashed", "no_index"}

Stitched == fpc \in {"no_cuts", "key_error", "written"}

\* The entries with a cut list, i.e. the chapters whose proposal was accepted.
AcceptedEntries ==
    {final_edits[k] : k \in {j \in 1..Len(final_edits) : final_edits[j].edl.has_cuts}}

EntriesFor(edits, title) ==
    {k \in 1..Len(edits) : edits[k].chapter_title = title}

ChapterOf(entry) == chapters[entry.chapter_title]

\* Sorted, gap-free, overlap-free cover of [0, ProgramDuration).
ChapterCoverage(chs) ==
    /\ chs # <<>>
    /\ chs[1].start_time = 0
    /\ chs[Len(chs)].end_time = ProgramDuration
    /\ \A k \in 1..(Len(chs) - 1) : chs[k].end_time = chs[k + 1].start_time

\* The structural map the run loaded is a well-formed chapter list.
ValidMap == ChapterCoverage(chapters)

\* The cut list of at least one chapter was planned and accepted.
Planned == \E k \in 1..Len(outcomes) : outcomes[k] = "cuts"

\* C3: in the stitched global timeline every cut ends no later than the next
\* one starts, whatever cut lists the oracle proposed.
C3_StitchedNonOverlap ==
    (ValidMap /\ Stitched) =>
        \A i \in 1..(Len(full_edl) - 1) :
            full_edl[i].end_time <= full_edl[i + 1].start_time

\* The run took up every chapter and ended with a persisted file that holds
\* an entry for each chapter whose oracle call returned cuts.
RunCompleted ==
    /\ Len(outcomes) = Len(chapters)
    /\ director_edits_file.exists
    /\ \A j \in 1..Len(outcomes) :
          outcomes[j] = "cuts" =>
              EntriesFor(director_edits_file.edits, chapters[j].title) # {}

\* C4: a chapter whose oracle call raised, or whose answer does not parse,
\* leaves no entry in the edits; the run still takes up every remaining
\* chapter and ends with the successful chapters' edits persisted.
C4_OracleFailureIsolated ==
    ValidMap =>
        \A k \in 1..Len(outcomes) :
            outcomes[k] \in {"oracle_raise", "bad_json"} =>
                /\ EntriesFor(final_edits, chapters[k].title) = {}
                /\ EntriesFor(director_edits_file.edits, chapters[k].title) = {}
                /\ Terminated => RunCompleted

\* C5: a failed retrieval query fails its chapter only: the pass does not
\* abort, it takes up the later chapters and persists the completed ones.
C5_QueryFailureIsolated ==
    (ValidMap /\ \E k \in 1..Len(outcomes) : outcomes[k] = "query_raise") =>
        /\ dpc # "crashed"
        /\ Terminated => RunCompleted

\* C6: every accepted cut, and every cut handed to the stitcher and the
\* serializer, names a declared camera.
C6_DeclaredCamerasOnly ==
    ValidMap =>
    /\ \A e \in AcceptedEntries : \A k \in 1..Len(e.edl.cuts) :
          e.edl.cuts[k].camera_id \in DeclaredCameras
    /\ \A k \in 1..Len(full_edl) : full_edl[k].camera_id \in DeclaredCameras

\* The cuts are sorted and tile [start, end): the first starts at start, each
\* ends where the next starts, the last ends at end, none is empty.
Covers(cuts, start, end) ==
    /\ cuts # <<>>
    /\ cuts[1].start_time = start
    /\ cuts[Len(cuts)].end_time = end
    /\ \A k \in 1..Len(cuts) : cuts[k].start_time < cuts[k].end_time
    /\ \A k \in 1..(Len(cuts) - 1) : cuts[k].end_time = cuts[k + 1].start_time

\* C7: every accepted cut list covers its chapter's span without gap or
\* overlap.
C7_AcceptedCutsCoverChapter ==
    ValidMap => \A e \in AcceptedEntries :
        Covers(e.edl.cuts, ChapterOf(e).start_time, ChapterOf(e).end_time)

\* C8: no accepted cut is shorter than the minimum cut duration (a shorter
\* proposed cut having been merged into its neighbour).
C8_MinimumCutDuration ==
    ValidMap => \A e \in AcceptedEntries : \A k \in 1..Len(e.edl.cuts) :
        e.edl.cuts[k].end_time - e.edl.cuts[k].start_time >= MinCutDuration

\* A cut that starts before and ends after one of the chapter's boundaries.
Crosses(cut, ch) ==
    \/ cut.start_time < ch.start_time /\ ch.start_time < cut.end_time
    \/ cut.start_time < ch.end_time /\ ch.end_time < cut.end_time

\* C9: a cut the oracle returned for a chapter that crosses the chapter's
\* boundary never appears unchanged in the global timeline.
C9_BoundaryCrossingCutNotKept ==
    (ValidMap /\ Stitched) =>
        \A k \in 1..Len(director_edits_file.edits) :
            LET e == director_edits_file.edits[k]
            IN  \A n \in 1..Len(e.edl.cuts) :
                    Crosses(e.edl.cuts[n], ChapterOf(e)) =>
                        \A m \in 1..Len(full_edl) : full_edl[m] # e.edl.cuts[n]

\* C10: once the director pass has planned a chapter, the chapter list it
\* iterates over starts at 0, ends at the programme's duration and has no gap
\* and no overlap.
C10_ChapterCoverage ==
    Planned => ChapterCoverage(chapters)

\* final_edits holds entries of chapters already taken up only, at most one
\* per chapter and in chapter order; director_edits.json exists only once the
\* loop has passed the last chapter, and then holds the whole list.
ResultsInChapterOrder ==
    /\ \A k \in 1..Len(final_edits) : final_edits[k].chapter_title < idx
    /\ \A j, k \in 1..Len(final_edits) :
          j < k => final_edits[j].chapter_title < final_edits[k].chapter_title
    /\ director_edits_file.exists =>
          /\ idx > Len(chapters)
          /\ director_edits_file.edits = final_edits

\* A step leaves final_edits alone or appends one entry to it, and it writes
\* director_edits.json only when the loop has passed the last chapter.
ResultsAppendOnly ==
    /\ \/ final_edits' = final_edits
       \/ /\ Len(final_edits') = Len(final_edits) + 1
          /\ SubSeq(final_edits', 1, Len(final_edits)) = final_edits
    /\ director_edits_file' # director_edits_file => idx > Len(chapters)

\* C20: during the director pass the list of per-chapter results gets at most
\* one entry per chapter, in chapter order; nothing is removed or rewritten
\* once appended; and the list is persisted only after the last chapter has
\* been processed.
C20_ResultsAppendOnlyInOrder ==
    [](ResultsInChapterOrder) /\ [][ResultsAppendOnly]_vars

\* Both chapters of a two-chapter map got their entry and the list was saved.
C20_Witness ==
    /\ dpc = "done"
    /\ Len(chapters) = 2
    /\ Len(final_edits) = 2
    /\ director_edits_file.exists

\* Some entry of the persisted director_edits.json holds at least one cut.
SomeChapterContributed ==
    /\ director_edits_file.exists
    /\ \E k \in 1..Len(director_edits_file.edits) :
          /\ director_edits_file.edits[k].edl.has_cuts
          /\ director_edits_file.edits[k].edl.cuts # <<>>

\* C16: the finishing pass writes the project file whenever at least one
\* chapter contributed at least one cut, however many other chapters failed
\* or are missing, and it aborts with an error, writing no file, exactly when
\* no chapter contributed a cut.
C16_FileWrittenIffSomeCut ==
    (ValidMap /\ fpc # "idle") =>
        /\ fcpxml.written <=> SomeChapterContributed
        /\ fpc \in {"no_file", "no_cuts"} <=> ~SomeChapterContributed

----------------------------------------------------------------------------
(* Properties of the serialized project, checked under SpecFinishing *)

\* round(n / d) for n >= 0: Python rounds halves to the even neighbour.
RoundOf(n, d) ==
    LET q == n \div d
        r == n % d
    IN  IF 2 * r < d THEN q
        ELSE IF 2 * r > d THEN q + 1
        ELSE IF q % 2 = 0 THEN q ELSE q + 1

NearestFrame(t) == RoundOf(t * FRAME_RATE, TicksPerSecond)

\* C11: every time value the serializer writes (clip offset, clip source
\* in-point, sequence and asset duration) has the numerator round(t * 30),
\* the frame count nearest to t * FRAME_RATE, over the denominator FRAME_RATE.
C11_TimecodeIsNearestFrame ==
    fcpxml.written =>
        /\ fcpxml.duration = NearestFrame(Last(full_edl).end_time)
        /\ \A k \in 1..Len(fcpxml.clips) :
              /\ fcpxml.clips[k].offset = NearestFrame(full_edl[k].start_time)
              /\ fcpxml.clips[k].start = NearestFrame(full_edl[k].start_time)

Abs(n) == IF n >= 0 THEN n ELSE -n

\* |frames / FRAME_RATE - t| <= 1 / FRAME_RATE for a time t in ticks.
WithinOneFrame(frames, t) ==
    Abs(frames * TicksPerSecond - t * FRAME_RATE) <= TicksPerSecond

\* C12: reading the spine back (start = offset, end = offset + duration,
\* camera = clip name) gives as many clips as the timeline has cuts, in the
\* same order with the same camera, each start and end within one frame of
\* the cut's.
C12_RoundTripWithinOneFrame ==
    fcpxml.written =>
        /\ Len(fcpxml.clips) = Len(full_edl)
        /\ \A k \in 1..Len(full_edl) :
              LET clip == fcpxml.clips[k]
              IN  /\ clip.name = full_edl[k].camera_id
                  /\ WithinOneFrame(clip.offset, full_edl[k].start_time)
                  /\ WithinOneFrame(clip.offset + clip.duration, full_edl[k].end_time)

----------------------------------------------------------------------------
(* Properties of the local context, checked under SpecContext *)

FramesInside(cam) ==
    SelectSeq(video_logs[cam],
              LAMBDA item : InInterval(item, chapter_span.start_time,
                                       chapter_span.end_time))

FramesAtOrBefore(cam) ==
    SelectSeq(video_logs[cam],
              LAMBDA item : item.timestamp <= chapter_span.start_time)

\* C13: for each camera the visual part holds all frame events with
\* start <= timestamp < end when there is one, and otherwise the most recent
\* frame event with timestamp <= start when the camera has one.
C13_VisualsFallBackToLatestFrame ==
    cpc = "built" =>
        \A cam \in DOMAIN video_logs :
            IF FramesInside(cam) # <<>>
            THEN local_context.visuals[cam] = FramesInside(cam)
            ELSE IF FramesAtOrBefore(cam) # <<>>
            THEN local_context.visuals[cam] = <<Last(FramesAtOrBefore(cam))>>
            ELSE local_context.visuals[cam] = <<>>

RECURSIVE WordsOfParts(_)
WordsOfParts(parts) ==
    IF parts = <<>> THEN <<>>
    ELSE WordsOfParts(Front(parts)) \o Last(parts).words

WordInSpan(item) ==
    chapter_span.start_time <= item.start /\ item.start < chapter_span.end_time

\* The words of the log with start <= word.start < end, in log order.
WordsInSpan ==
    LET inside == SelectSeq(master_audio_log, WordInSpan)
    IN  [k \in 1..Len(inside) |-> inside[k].word]

\* The label a word is grouped by; the word text is its position in the log.
LabelOfWord(word) == SpeakerOf(master_audio_log[word])

\* C14: the transcript part holds exactly the words with
\* start <= word.start < end, in log order, none dropped or duplicated, split
\* into maximal contiguous runs of one speaker label: every run is one part
\* under its speaker's label and consecutive parts carry different labels.
C14_TranscriptIsMaximalSpeakerRuns ==
    cpc = "built" =>
        LET parts == local_context.transcript_parts
        IN  /\ WordsOfParts(parts) = WordsInSpan
            /\ \A p \in 1..Len(parts) :
                  /\ parts[p].words # <<>>
                  /\ \A k \in 1..Len(parts[p].words) :
                        Upper(LabelOfWord(parts[p].words[k])) = parts[p].tag
            /\ \A p \in 1..(Len(parts) - 1) : parts[p].tag # parts[p + 1].tag

\* Three words of the interval: a run of two under one label, then a speaker
\* switch that opens a second run.
C14_Witness ==
    /\ cpc = "built"
    /\ Len(WordsInSpan) = 3
    /\ Len(local_context.transcript_parts) = 2
    /\ Len(local_context.transcript_parts[1].words) = 2

\* C19: in the local context a word without a speaker label is emitted as
\* plain transcription, under no speaker tag, and a labelled word is emitted
\* under the tag of its role.
C19_UnlabelledWordsUntagged ==
    cpc = "built" =>
        \A p \in 1..Len(local_context.transcript_parts) :
            LET part == local_context.transcript_parts[p]
            IN  \A k \in 1..Len(part.words) :
                    LET item == master_audio_log[part.words[k]]
                    IN  IF item.speaker = ""
                        THEN part.tag = ""
                        ELSE part.tag = Upper(item.speaker)

\* The frame numbers a spine over 0..MaxTick can touch.
FrameNumbers == 0..(Frames(MaxTick, TicksPerSecond) + 1)

\* Frame f is the time [f / FRAME_RATE, (f + 1) / FRAME_RATE).
ClipCovers(clip, f) == clip.offset <= f /\ f < clip.offset + clip.duration

CutTouches(cut, f) ==
    /\ cut.start_time * FRAME_RATE < (f + 1) * TicksPerSecond
    /\ f * TicksPerSecond < cut.end_time * FRAME_RATE

\* Frame f lies wholly between the end of cut i and the start of cut i + 1.
FrameInGap(f, i) ==
    /\ full_edl[i].end_time * FRAME_RATE <= f * TicksPerSecond
    /\ (f + 1) * TicksPerSecond <= full_edl[i + 1].start_time * FRAME_RATE

----------------------------------------------------------------------------
(* Properties of identify_speakers, checked under SpecIdentify *)

\* The fallback hints: min 2, max 8, no exact number.
Widened(call) ==
    call.kwargs = [num_speakers |-> 0,
                   min_speakers |-> FALLBACK_MIN_SPEAKERS,
                   max_speakers |-> FALLBACK_MAX_SPEAKERS]

\* At most two invocations; a second one, with the fallback hints, exactly
\* when the first attempt gave at most one distinct speaker id.
RetryExactlyOnCollapse ==
    /\ Len(diarizer_calls) <= 2
    /\ Len(diarizer_calls) = 2 => Widened(diarizer_calls[2])
    /\ ipc = "returned" =>
          (Len(diarizer_calls) = 2 <=> first_unique \in {0, 1})

\* A run that invoked the engine ends having seen more than one distinct
\* speaker id or having used both invocations.
EndsObservedOrExhausted ==
    (ipc = "returned" /\ diarizer_calls # <<>>) =>
        first_unique > 1 \/ Len(diarizer_calls) = 2

\* C17: identify_speakers re-invokes the diarization engine with the widened
\* fallback range (min 2, max 8, no exact count) exactly when the first
\* attempt yields at most one distinct speaker id, invokes it at most twice,
\* and always ends having observed more than one distinct speaker id or with
\* the retry budget exhausted.
C17_FallbackRetryBounded == RetryExactlyOnCollapse /\ EndsObservedOrExhausted

\* C18: when a call to the diarization engine raises, the call is retried with
\* the widened (min_speakers, max_speakers) policy before a result without
\* diarization is accepted.
C18_FailedCallRetried ==
    ipc = "returned" =>
        \A k \in 1..Len(diarizer_calls) :
            diarizer_calls[k].raised =>
                \E j \in (k + 1)..Len(diarizer_calls) : Widened(diarizer_calls[j])

\* The assets of the project whose id is the given reference.
AssetsWithId(ref) ==
    {k \in 1..Len(fcpxml.assets) : fcpxml.assets[k].id = ref}

\* C21: the project has exactly one format descriptor, exactly one asset per
\* entry of the camera-to-source mapping, with pairwise distinct ids that
\* differ from the format id, and exactly one clip per cut in timeline order;
\* the video and audio reference of a clip resolve to the asset of the cut's
\* camera, and the clip's source in-point equals its timeline offset.
C21_ProjectStructure ==
    fcpxml.written =>
        /\ Len(fcpxml.formats) = 1
        /\ Len(fcpxml.assets) = Len(SOURCE_VIDEOS)
        /\ \A k \in 1..Len(SOURCE_VIDEOS) : fcpxml.assets[k].name = SOURCE_VIDEOS[k]
        /\ \A j, k \in 1..Len(fcpxml.assets) :
              j # k => fcpxml.assets[j].id # fcpxml.assets[k].id
        /\ \A k \in 1..Len(fcpxml.assets) : fcpxml.assets[k].id # fcpxml.formats[1]
        /\ Len(fcpxml.clips) = Len(full_edl)
        /\ \A k \in 1..Len(full_edl) :
              LET clip == fcpxml.clips[k]
              IN  /\ clip.name = full_edl[k].camera_id
                  /\ clip.offset = Frames(full_edl[k].start_time, TicksPerSecond)
                  /\ clip.audio_ref = clip.video_ref
                  /\ Cardinality(AssetsWithId(clip.video_ref)) = 1
                  /\ \A a \in AssetsWithId(clip.video_ref) :
                        fcpxml.assets[a].name = full_edl[k].camera_id
                  /\ clip.start = clip.offset

\* A project of two clips from two different cameras, the later-declared
\* camera first.
C21_Witness ==
    /\ fcpxml.written
    /\ Len(fcpxml.clips) = 2
    /\ fcpxml.clips[1].name = "cam_wide"
    /\ fcpxml.clips[2].name = "cam_host"
    /\ fcpxml.clips[1].offset < fcpxml.clips[2].offset

\* C22: where two consecutive cuts are contiguous
\* (cuts[i].end_time = cuts[i+1].start_time) their clips are contiguous too:
\* offset plus duration of clip i is the offset of clip i + 1, in frames.
C22_ContiguousCutsContiguousClips ==
    fcpxml.written =>
        \A i \in 1..(Len(full_edl) - 1) :
            full_edl[i].end_time = full_edl[i + 1].start_time =>
                fcpxml.clips[i].offset + fcpxml.clips[i].duration
                    = fcpxml.clips[i + 1].offset

\* C24: the sequence duration, which is also every asset's duration, covers
\* every clip of the spine: offset + duration <= sequence duration.
C24_SequenceCoversClips ==
    fcpxml.written =>
        /\ \A a \in 1..Len(fcpxml.assets) : fcpxml.assets[a].duration = fcpxml.duration
        /\ \A k \in 1..Len(fcpxml.clips) :
              fcpxml.clips[k].offset + fcpxml.clips[k].duration <= fcpxml.duration

----------------------------------------------------------------------------
(* Properties of the stitcher, checked under SpecFinishing *)

\* The cut lists of the entries that have a 'cuts' key, end to end.
ConcatenatedCuts == ExtendAll(director_edits_file.edits)

Occurrences(cuts, cut) == Cardinality({k \in 1..Len(cuts) : cuts[k] = cut})

CutsStartingAt(cuts, t) == SelectSeq(cuts, LAMBDA cut : cut.start_time = t)

\* C23: the stitched timeline is a permutation of the concatenation of the
\* per-chapter cut lists that have a 'cuts' entry (nothing dropped, duplicated
\* or altered), ordered by non-decreasing start_time, and cuts of equal
\* start_time keep their concatenation order.
C23_StitchIsStablePermutation ==
    fpc \in {"no_cuts", "key_error", "written"} =>
        /\ Len(full_edl) = Len(ConcatenatedCuts)
        /\ \A k \in 1..Len(ConcatenatedCuts) :
              Occurrences(full_edl, ConcatenatedCuts[k])
                  = Occurrences(ConcatenatedCuts, ConcatenatedCuts[k])
        /\ \A j, k \in 1..Len(full_edl) :
              j < k => full_edl[j].start_time <= full_edl[k].start_time
        /\ \A t \in 0..MaxTick :
              CutsStartingAt(full_edl, t) = CutsStartingAt(ConcatenatedCuts, t)

\* Two chapters contributed one cut each, both starting at the same time on
\* different cameras, with an entry without 'cuts' between them.
C23_Witness ==
    /\ fpc = "written"
    /\ Len(director_edits_file.edits) = 3
    /\ Len(director_edits_file.edits[1].edl.cuts) = 1
    /\ Len(director_edits_file.edits[3].edl.cuts) = 1
    /\ full_edl[1].start_time = full_edl[2].start_time
    /\ full_edl[1].camera_id # full_edl[2].camera_id

----------------------------------------------------------------------------
(* Properties of the retrieval index *)

\* the documents whose transcript chunk holds the word at position i
DocumentsHolding(i) ==
    {d \in 1..Len(documents) : \E k \in 1..Len(documents[d].words) :
                                   documents[d].words[k] = i}

\* C25: once the documents are prepared, every word of the audio log is in
\* the transcript chunk of exactly one bucket, whatever the total duration.
C25_EveryWordInOneBucket ==
    xpc = "prepared" =>
        \A i \in 1..Len(audio_log) : Cardinality(DocumentsHolding(i)) = 1

----------------------------------------------------------------------------
(* Properties of the ingestion *)

\* C26: the saved combined log holds the stream of every configured camera
\* whose source file exists and whose description engine run succeeds, and
\* of no other camera; once the camera loop is entered, the log is saved
\* only after every camera was visited.
C26_HealthyCamerasInCombinedLog ==
    /\ combined_data.saved =>
           \A cam \in MainCameras :
               cam \in combined_data.video_logs
                   <=> (source_exists[cam] /\ engine_ok[cam])
    /\ combined_data.saved => cam_pos > Len(VIDEO_FILES)

----------------------------------------------------------------------------
(* Properties of the temporary audio file of identify_speakers *)

\* identify_speakers has left through its finally block: a normal return
\* (also after a failed diarization) or an exception of steps 1 to 3.
ExitedAfterPreparation ==
    ipc = "returned" \/ (ipc = "raised" /\ pending_raise)

\* C27 as stated: on every exit after the audio preparation the temporary
\* file has been removed if and only if this call created it, and the input
\* file is still there.
C27_TempRemovedIffCreated ==
    ExitedAfterPreparation =>
        /\ input_exists
        /\ is_temp <=> cleanup = "removed"
        /\ ~temp_exists

\* C27, amended: on every exit after the audio preparation the removal of
\* the temporary file has been attempted if and only if this call created
\* it, the file is left on disk only when that removal failed with a
\* warning, and the input file is still there.
C27_TempRemovalAttemptedIffCreated ==
    ExitedAfterPreparation =>
        /\ input_exists
        /\ is_temp <=> cleanup # "none"
        /\ temp_exists <=> (is_temp /\ cleanup = "warned")

\* an exception of the transcription leaves a call that truncated the audio,
\* and the temporary file is gone
C27_Witness ==
    /\ ipc = "raised"
    /\ pending_raise
    /\ is_temp
    /\ cleanup = "removed"
    /\ ~temp_exists
    /\ input_exists

----------------------------------------------------------------------------
(* Properties of the word labelling *)

\* positions of the speaker segments whose closed interval holds time t
SegmentsHolding(t) ==
    {k \in 1..Len(speaker_segments) :
        speaker_segments[k].start <= t /\ t <= speaker_segments[k].end}

LeastOf(S) == CHOOSE k \in S : \A j \in S : k <= j

\* C28: with a speaker map loaded, every transcribed word has one speaker
\* label: the role (or the raw id when it has no role) of the first listed
\* segment whose closed interval holds the word's start, and "unknown"
\* exactly when no segment holds it.
C28_LabelIsFirstContainingSegment ==
    (wpc = "logged" /\ speaker_map_loaded) =>
        /\ Len(word_log) = Len(transcribed_words)
        /\ \A i \in 1..Len(word_log) :
              LET holding == SegmentsHolding(transcribed_words[i])
              IN  /\ DOMAIN word_log[i] = {"start", "speaker"}
                  /\ word_log[i].start = transcribed_words[i]
                  /\ (word_log[i].speaker = "unknown") <=> (holding = {})
                  /\ holding # {} =>
                        LET id == speaker_segments[LeastOf(holding)].speaker_id
                        IN  word_log[i].speaker =
                                IF id \in DOMAIN role_mapping
                                THEN role_mapping[id] ELSE id

\* a word starts on the boundary shared by two segments of different
\* speakers and carries the label of the one listed first; another word is
\* after every segment and is "unknown"
C28_Witness ==
    /\ wpc = "logged"
    /\ speaker_map_loaded
    /\ Len(speaker_segments) = 2
    /\ speaker_segments[1].end = speaker_segments[2].start
    /\ speaker_segments[1].speaker_id # speaker_segments[2].speaker_id
    /\ DOMAIN role_mapping = {speaker_segments[1].speaker_id}
    /\ Len(word_log) = 2
    /\ word_log[1].start = speaker_segments[1].end
    /\ word_log[1].speaker = role_mapping[speaker_segments[1].speaker_id]
    /\ word_log[2].speaker = "unknown"

====
